---- MODULE Spec2Model ----
(***************************************************************************)
(* Model of server.py of discogs-mcp: the two tools search_records and     *)
(* get_release, the helper _fetch_release_stats, and the upstream HTTP     *)
(* API as the environment that answers each outbound GET.                  *)
(*                                                                         *)
(* Python / JSON values are tagged records:                                *)
(*   None, PyInt(i), PyStr(<<chars>>), PyList(<<..>>), PyDict([k |-> v])   *)
(* a raised exception is Raise(name) and propagates through the helpers.   *)
(* Strings are sequences of one-character strings so that the regular      *)
(* expression of line 94 and the f-string of line 120 are computed.        *)
(***************************************************************************)
EXTENDS Integers, Sequences, FiniteSets, TLC

\* ---------------------------------------------------------------- values
None == [t |-> "None"]
PyInt(i) == [t |-> "int", v |-> i]
PyStr(s) == [t |-> "str", v |-> s]
PyList(s) == [t |-> "list", v |-> s]
PyDict(f) == [t |-> "dict", v |-> f]
Raise(name) == [t |-> "raise", exc |-> name]
IsRaise(x) == x.t = "raise"
EmptyDict == PyDict([k \in {} |-> None])
\* a response body that is not JSON: resp.json() raises on it
MalformedJson == [t |-> "malformed"]

\* Python truthiness of the value kinds used here (if type:, if rid:)
PyTruthy(x) ==
    CASE x.t = "None" -> FALSE
      [] x.t = "int"  -> x.v # 0
      [] x.t = "str"  -> Len(x.v) > 0
      [] x.t = "list" -> Len(x.v) > 0
      [] x.t = "dict" -> DOMAIN x.v # {}
      [] OTHER        -> TRUE

\* d.get(k, default): only a dict has .get; anything else is an
\* AttributeError, and an exception in d propagates
PyGet(d, k, default) ==
    IF IsRaise(d) THEN d
    ELSE IF d.t # "dict" THEN Raise("AttributeError")
    ELSE IF k \in DOMAIN d.v THEN d.v[k] ELSE default

\* the elements a comprehension visits when x is a list
IterSeq(x) == IF x.t = "list" THEN x.v ELSE <<>>

\* [F(e) for e in x], where ys[i] is F applied to the i-th element: the
\* list of the values, or the first exception raised on the way
PyComprehension(x, ys) ==
    IF IsRaise(x) THEN x
    ELSE IF x.t = "list"
         THEN IF \E i \in 1..Len(ys) : IsRaise(ys[i])
              THEN ys[CHOOSE i \in 1..Len(ys) :
                          /\ IsRaise(ys[i])
                          /\ \A j \in 1..(i-1) : ~IsRaise(ys[j])]
              ELSE PyList(ys)
    ELSE IF x.t = "dict"
         \* iterating a dict yields its keys (str), which have no .get
         THEN IF DOMAIN x.v = {} THEN PyList(<<>>) ELSE Raise("AttributeError")
    ELSE IF x.t = "str"
         THEN IF Len(x.v) = 0 THEN PyList(<<>>) ELSE Raise("AttributeError")
    ELSE Raise("TypeError")

Min(a, b) == IF a < b THEN a ELSE b
Max(a, b) == IF a > b THEN a ELSE b

\* x[:n] on a list (Python slice semantics, negative n counts from the end)
PySlice(x, n) ==
    IF IsRaise(x) THEN x
    ELSE IF x.t # "list" THEN Raise("TypeError")
    ELSE IF n >= 0 THEN PyList(SubSeq(x.v, 1, Min(n, Len(x.v))))
    ELSE PyList(SubSeq(x.v, 1, Max(Len(x.v) + n, 0)))

\* ---------------------------------------------------------------- strings
Digit == {"0", "1", "2", "3", "4", "5", "6", "7", "8", "9"}
DigitVal(c) ==
    CASE c = "0" -> 0 [] c = "1" -> 1 [] c = "2" -> 2 [] c = "3" -> 3
      [] c = "4" -> 4 [] c = "5" -> 5 [] c = "6" -> 6 [] c = "7" -> 7
      [] c = "8" -> 8 [] c = "9" -> 9
DigitChar(d) ==
    CASE d = 0 -> "0" [] d = 1 -> "1" [] d = 2 -> "2" [] d = 3 -> "3"
      [] d = 4 -> "4" [] d = 5 -> "5" [] d = 6 -> "6" [] d = 7 -> "7"
      [] d = 8 -> "8" [] d = 9 -> "9"

\* int("123")
RECURSIVE ParseInt(_)
ParseInt(s) ==
    IF Len(s) = 0 THEN 0
    ELSE 10 * ParseInt(SubSeq(s, 1, Len(s) - 1)) + DigitVal(s[Len(s)])

ReleasePrefix == <<"/", "r", "e", "l", "e", "a", "s", "e", "/">>
MasterPrefix == <<"/", "m", "a", "s", "t", "e", "r", "/">>
SiteOrigin == <<"h", "t", "t", "p", "s", ":", "/", "/", "w", "w", "w", ".",
                "d", "i", "s", "c", "o", "g", "s", ".", "c", "o", "m">>

\* re.search(r"/release/(\d+)", s): the leftmost position where the
\* literal is followed by a digit, then the longest run of digits; the
\* result is group(1), or <<>> when there is no match
MatchAt(s, p) ==
    /\ p + Len(ReleasePrefix) <= Len(s)
    /\ SubSeq(s, p, p + Len(ReleasePrefix) - 1) = ReleasePrefix
    /\ s[p + Len(ReleasePrefix)] \in Digit
ReSearchRelease(s) ==
    IF \E p \in 1..Len(s) : MatchAt(s, p)
    THEN LET p == CHOOSE q \in 1..Len(s) :
                     MatchAt(s, q) /\ \A r \in 1..(q-1) : ~MatchAt(s, r)
             b == p + Len(ReleasePrefix)
             e == CHOOSE k \in b..Len(s) :
                     /\ \A j \in b..k : s[j] \in Digit
                     /\ (k = Len(s) \/ s[k+1] \notin Digit)
         IN SubSeq(s, b, e)
    ELSE <<>>

\* the release id of one search item (loop body of lines 92-98)
ExtractReleaseId(item) ==
    LET uri == PyGet(item, "uri", PyStr(<<>>))
    IN IF IsRaise(uri) THEN uri
       ELSE IF uri.t # "str" THEN Raise("TypeError")
       ELSE IF ReSearchRelease(uri.v) = <<>> THEN None
       ELSE PyInt(ParseInt(ReSearchRelease(uri.v)))

\* ------------------------------------------------------------- constants
\* the per_page ceiling of line 63
MaxPerPage == 100
\* the default of parameter n (line 44)
DefaultN == 5

\* a dict display {k1: e1, k2: e2, ...}: the entries are evaluated in the
\* order written, and the first exception wins
DictDisplay(f, order) ==
    IF \E i \in 1..Len(order) : IsRaise(f[order[i]])
    THEN f[order[CHOOSE i \in 1..Len(order) :
                   /\ IsRaise(f[order[i]])
                   /\ \A j \in 1..(i-1) : ~IsRaise(f[order[j]])]]
    ELSE PyDict(f)

\* ------------------------------------------------------ HTTP (httpx) layer
Transport == [kind |-> "transport"]
Http(status, body) == [kind |-> "http", status |-> status, body |-> body]
IsSuccess(resp) == resp.kind = "http" /\ resp.status \in 200..299

\* the same without raise_for_status()
GetJsonAnyStatus(resp) ==
    IF resp.kind = "transport" THEN Raise("ConnectError")
    ELSE IF resp.body = MalformedJson THEN Raise("JSONDecodeError")
    ELSE resp.body

\* await client.get(...); resp.raise_for_status(); resp.json()
\* (lines 80-86, 142-144, 28-30): the parsed body or the exception
GetJson(resp) ==
    IF resp.kind = "transport" THEN Raise("ConnectError")
    ELSE IF ~IsSuccess(resp) THEN Raise("HTTPStatusError")
    ELSE IF resp.body = MalformedJson THEN Raise("JSONDecodeError")
    ELSE resp.body

\* ------------------------------------------------- _fetch_release_stats
NullStats == PyDict([want |-> None, have |-> None, rating |-> None])

\* the try block (lines 28-36)
FetchReleaseStatsTry(resp) ==
    LET data == GetJson(resp)
        community == PyGet(data, "community", EmptyDict)
    IN DictDisplay([want   |-> PyGet(community, "want", None),
                    have   |-> PyGet(community, "have", None),
                    rating |-> PyGet(PyGet(community, "rating", EmptyDict),
                                     "average", None)],
                   <<"want", "have", "rating">>)

\* the same function without its except clause
FetchReleaseStatsUnguarded(resp) == FetchReleaseStatsTry(resp)

\* try ... except Exception: return the null stats (lines 27-38)
FetchReleaseStats(resp) ==
    IF IsRaise(FetchReleaseStatsTry(resp)) THEN NullStats
    ELSE FetchReleaseStatsTry(resp)

\* ------------------------------------------------------- search_records
FilterNames == {"type", "artist", "genre", "year", "format"}

\* per_page with a lower clamp to 1, which the code does not have
PerPageClamped(n) == Max(1, Min(n, MaxPerPage))

\* min(n, 100) of line 63
PerPage(n) == Min(n, MaxPerPage)

\* a filter is forwarded when it is not None (instead of when it is truthy)
ForwardedIfNotNone(v) == v # None

\* `if type:` ... `if format:` (lines 64-73)
Forwarded(v) == PyTruthy(v)

\* the params mapping (lines 63-73); args is the record of the arguments
BuildParams(args) ==
    [k \in {"q", "per_page"} \cup {f \in FilterNames : Forwarded(args[f])} |->
        IF k = "q" THEN args.query
        ELSE IF k = "per_page" THEN PyInt(PerPage(args.n))
        ELSE args[k]]

\* data.get("results", [])[:n] taking the last n items instead
TruncateFromEnd(d, n) ==
    LET r == PyGet(d, "results", PyList(<<>>))
    IN IF IsRaise(r) THEN r
       ELSE IF r.t # "list" THEN Raise("TypeError")
       ELSE PyList(SubSeq(r.v, Len(r.v) - Min(Max(n, 0), Len(r.v)) + 1, Len(r.v)))

\* items = data.get("results", [])[:n] (line 88)
Truncate(d, n) == PySlice(PyGet(d, "results", PyList(<<>>)), n)

\* release_ids (lines 91-98): the list, or the first exception
ReleaseIds(its) ==
    PyComprehension(its, [i \in 1..Len(IterSeq(its)) |-> ExtractReleaseId(IterSeq(its)[i])])

\* building stats_tasks (lines 101-106) raises AttributeError when the
\* interpreter has no asyncio.coroutine and some id is falsy
PlaceholderFails(rids, has) ==
    {i \in 1..Len(rids) : ~PyTruthy(rids[i]) /\ ~has}

\* one result entry (lines 112-125)
SearchResultItem(item, stats) ==
    DictDisplay([title   |-> PyGet(item, "title", None),
                 year    |-> PyGet(item, "year", None),
                 format  |-> PyGet(item, "format", None),
                 label   |-> PyGet(item, "label", None),
                 genre   |-> PyGet(item, "genre", None),
                 style   |-> PyGet(item, "style", None),
                 country |-> PyGet(item, "country", None),
                 url     |-> PyStr(SiteOrigin \o PyGet(item, "uri", PyStr(<<>>)).v),
                 thumb   |-> PyGet(item, "thumb", None),
                 want    |-> PyGet(stats, "want", None),
                 have    |-> PyGet(stats, "have", None),
                 rating  |-> PyGet(stats, "rating", None)],
                <<"title", "year", "format", "label", "genre", "style",
                  "country", "url", "thumb", "want", "have", "rating">>)

\* ---------------------------------------------------------- get_release
ArtistName(a) == PyGet(a, "name", None)
Track(tr) ==
    DictDisplay([position |-> PyGet(tr, "position", None),
                 title    |-> PyGet(tr, "title", None),
                 duration |-> PyGet(tr, "duration", None)],
                <<"position", "title", "duration">>)
Community(d) ==
    LET c == PyGet(d, "community", EmptyDict)
        r == PyGet(c, "rating", EmptyDict)
    IN DictDisplay([want          |-> PyGet(c, "want", None),
                    have          |-> PyGet(c, "have", None),
                    rating        |-> PyGet(r, "average", None),
                    ratings_count |-> PyGet(r, "count", None)],
                   <<"want", "have", "rating", "ratings_count">>)

NullPricing ==
    PyDict([lowest_price |-> None, median_price |-> None, highest_price |-> None])

\* [F(e) for e in data.get(field, [])] for the three list fields
Names(l) == PyComprehension(l, [i \in 1..Len(IterSeq(l)) |-> ArtistName(IterSeq(l)[i])])
Tracks(l) == PyComprehension(l, [i \in 1..Len(IterSeq(l)) |-> Track(IterSeq(l)[i])])

ReleaseFields(d) ==
    [title     |-> PyGet(d, "title", None),
     artists   |-> Names(PyGet(d, "artists", PyList(<<>>))),
     year      |-> PyGet(d, "year", None),
     formats   |-> PyGet(d, "formats", None),
     labels    |-> Names(PyGet(d, "labels", PyList(<<>>))),
     genres    |-> PyGet(d, "genres", None),
     styles    |-> PyGet(d, "styles", None),
     country   |-> PyGet(d, "country", None),
     tracklist |-> Tracks(PyGet(d, "tracklist", PyList(<<>>))),
     community |-> Community(d),
     url       |-> PyGet(d, "uri", None)]
ReleaseOrder ==
    <<"title", "artists", "year", "formats", "labels", "genres", "styles",
      "country", "tracklist", "community", "url">>

\* a get_release that adds an all-null pricing entry, which the code does not
ReleaseDetailWithPricing(d) ==
    DictDisplay([k \in DOMAIN ReleaseFields(d) \cup {"pricing"} |->
                    IF k = "pricing" THEN NullPricing ELSE ReleaseFields(d)[k]],
                ReleaseOrder \o <<"pricing">>)

\* a get_release that lets a failed detail request through as an empty body
ReleaseDetailLenient(d) ==
    IF IsRaise(d) THEN DictDisplay(ReleaseFields(EmptyDict), ReleaseOrder)
    ELSE DictDisplay(ReleaseFields(d), ReleaseOrder)

\* the returned dict (lines 146-163), or the exception raised on the way
ReleaseDetail(d) == DictDisplay(ReleaseFields(d), ReleaseOrder)


\* ------------------------------------------------------------------ bounds
\* longest upstream result list that is enumerated item by item
MaxResults == 2

\* ------------------------------------------------------ upstream payloads
Restrict(f, S) == [k \in S |-> f[k]]

RECURSIVE Digits(_)
Digits(i) == IF i < 10 THEN <<DigitChar(i)>>
             ELSE Digits(i \div 10) \o <<DigitChar(i % 10)>>

FullItemFields(uri) ==
    [title |-> PyStr(<<"T">>), year |-> PyStr(<<"1", "9", "7", "0">>),
     format |-> PyList(<<PyStr(<<"V">>)>>), label |-> PyList(<<PyStr(<<"L">>)>>),
     genre |-> PyList(<<PyStr(<<"G">>)>>), style |-> PyList(<<>>),
     country |-> PyStr(<<"U", "K">>), uri |-> PyStr(uri),
     thumb |-> PyStr(<<"t">>)]
ItemFieldNames == DOMAIN FullItemFields(<<>>)

Rel1 == PyDict(FullItemFields(ReleasePrefix \o <<"1">>))
Rel23 == PyDict([uri |-> PyStr(ReleasePrefix \o <<"2", "3", "-", "A">>)])
Rel0 == PyDict([uri |-> PyStr(ReleasePrefix \o <<"0">>)])
Master789 == PyDict([title |-> PyStr(<<"M">>),
                     uri |-> PyStr(MasterPrefix \o <<"7", "8", "9">>)])
NoUri == PyDict([title |-> PyStr(<<"N">>)])
ItemPool == {Rel1, Rel23, Rel0, Master789, NoUri}

\* a page of 20 results: five releases (ids 11..15), then fifteen masters
LongResults ==
    [i \in 1..20 |->
        IF i <= 5 THEN PyDict([title |-> PyStr(Digits(i)),
                               uri |-> PyStr(ReleasePrefix \o Digits(10 + i))])
        ELSE PyDict([title |-> PyStr(Digits(i)),
                     uri |-> PyStr(MasterPrefix \o Digits(i))])]

SeqsUpTo(S, m) == UNION {[1..k -> S] : k \in 0..m}
SearchBody(results) == PyDict([results |-> PyList(results)])

\* well-formed search payloads, each omitting some subset of optional fields
SearchPayloads ==
    {SearchBody(r) : r \in SeqsUpTo(ItemPool, MaxResults) \cup {LongResults}}
      \cup {SearchBody(<<PyDict(Restrict(FullItemFields(ReleasePrefix \o <<"1">>), S))>>) :
              S \in SUBSET ItemFieldNames}
      \cup {EmptyDict}
\* 2xx JSON whose shape the code does not expect
OddSearchPayloads ==
    {PyList(<<>>), PyDict([results |-> None]),
     SearchBody(<<PyInt(7)>>), SearchBody(<<PyDict([uri |-> None])>>)}
ErrorBody == PyDict([message |-> PyStr(<<"e">>)])
FailedResponses == {Transport, Http(404, ErrorBody), Http(500, MalformedJson),
                    Http(200, MalformedJson)}
SearchResponses ==
    FailedResponses \cup {Http(200, b) : b \in SearchPayloads \cup OddSearchPayloads}

StatsFull(rid) ==
    PyDict([id |-> PyInt(rid),
            community |-> PyDict([want |-> PyInt(rid), have |-> PyInt(rid + 1),
                                  rating |-> PyDict([average |-> PyInt(4),
                                                     count |-> PyInt(9)])])])
\* what upstream may answer to GET /releases/{rid}
StatsResponses(rid) ==
    {Transport, Http(200, StatsFull(rid))} \cup
    (IF rid \in {1, 23}
     THEN {Http(404, ErrorBody), Http(200, MalformedJson),
           Http(200, PyDict([id |-> PyInt(rid)])),
           Http(200, PyDict([community |-> PyDict([want |-> PyInt(rid)])])),
           Http(200, PyDict([community |-> None]))}
     ELSE {})

FullRelease(rid) ==
    [title |-> PyStr(<<"T">>),
     artists |-> PyList(<<PyDict([name |-> PyStr(<<"A">>)]), PyDict([id |-> PyInt(3)])>>),
     year |-> PyInt(1970),
     formats |-> PyList(<<PyDict([name |-> PyStr(<<"V">>)])>>),
     labels |-> PyList(<<PyDict([name |-> PyStr(<<"L">>)])>>),
     genres |-> PyList(<<PyStr(<<"G">>)>>),
     styles |-> PyList(<<>>),
     country |-> PyStr(<<"U", "K">>),
     tracklist |-> PyList(<<PyDict([position |-> PyStr(<<"A", "1">>),
                                    title |-> PyStr(<<"S">>),
                                    duration |-> PyStr(<<"3">>)]),
                            PyDict([title |-> PyStr(<<"R">>)])>>),
     community |-> StatsFull(rid).v.community,
     uri |-> PyStr(ReleasePrefix \o Digits(rid))]
ReleaseFieldNames == DOMAIN FullRelease(1)
CommunityVariants(rid) ==
    {StatsFull(rid).v.community, EmptyDict,
     PyDict([want |-> PyInt(rid), rating |-> EmptyDict])}
\* well-formed release payloads, each omitting some subset of optional fields
ReleasePayloads(rid) ==
    {PyDict([k \in S |-> IF k = "community" THEN c ELSE FullRelease(rid)[k]]) :
        S \in SUBSET ReleaseFieldNames, c \in CommunityVariants(rid)}
OddReleasePayloads ==
    {PyList(<<>>), PyDict([artists |-> None]), PyDict([community |-> None]),
     PyDict([tracklist |-> PyList(<<PyStr(<<"x">>)>>)])}
ReleaseResponses(rid) ==
    FailedResponses \cup
    {Http(200, b) : b \in ReleasePayloads(rid) \cup OddReleasePayloads}
\* what the marketplace endpoint would answer during the invocation
PricingResponses ==
    {Transport, Http(404, ErrorBody), Http(200, MalformedJson),
     Http(200, PyDict([lowest_price |-> PyDict([value |-> PyInt(5)])]))}

\* ------------------------------------------------------------------ inputs
NoFilters == {None}
FilterValues == {None, PyStr(<<>>), PyStr(<<"V">>)}
\* requested counts for the fan-out
FanOutN == (-1..MaxResults) \cup {DefaultN}
\* requested counts for the parameter mapping
ParamN == {-2, -1, 0, 1, 3, DefaultN, 99, 100, 101, 500}
SearchArgs(Ns, Fs) ==
    [tool : {"search_records"}, query : {PyStr(<<"q">>)}, n : Ns,
     type : Fs, artist : Fs, genre : Fs, year : Fs, format : Fs]
ReleaseIdArgs == {1, 23}

\* ------------------------------------------------------------------- state
VARIABLES
    has_coroutine,  \* whether the interpreter still has asyncio.coroutine
    pc,             \* where the tool invocation stands
    args,           \* the arguments of the invocation
    requests,       \* the outbound GETs issued so far, in order
    responses,      \* the answers received so far, in order of arrival
    data,           \* the parsed body of the primary request
    items,          \* the truncated result list (line 88)
    release_ids,    \* line 91-98
    stats_tasks,    \* the awaitables handed to asyncio.gather
    result,         \* the returned value
    error,          \* the exception that ended the invocation
    marketplace     \* the answer the marketplace endpoint would give

vars == <<has_coroutine, pc, args, requests, responses, data, items,
          release_ids, stats_tasks, result, error, marketplace>>

SearchRequest(params) == [endpoint |-> "/database/search", params |-> params]
ReleaseRequest(rid) == [endpoint |-> "/releases/", release_id |-> rid]

Init ==
    /\ has_coroutine \in BOOLEAN
    /\ pc = "idle"
    /\ args = [tool |-> "none"]
    /\ requests = <<>>
    /\ responses = <<>>
    /\ data = None
    /\ items = <<>>
    /\ release_ids = <<>>
    /\ stats_tasks = <<>>
    /\ result = None
    /\ error = ""
    /\ marketplace = Transport

Fail(exc) ==
    /\ pc' = "failed"
    /\ error' = exc
    /\ result' = None

\* search_records is called: lines 63-84, up to the await of the search GET
CallSearch(Ns, Fs) ==
    /\ pc = "idle"
    /\ \E a \in SearchArgs(Ns, Fs) :
        /\ args' = a
        /\ requests' = <<SearchRequest(BuildParams(a))>>
    /\ pc' = "search_wait"
    /\ UNCHANGED <<has_coroutine, responses, data, items, release_ids,
                   stats_tasks, result, error, marketplace>>

\* the search GET completes: lines 85-108, up to the await of gather
SearchResponse(Rs) ==
    /\ pc = "search_wait"
    /\ \E resp \in Rs :
        LET d    == GetJson(resp)
            its  == Truncate(d, args.n)
            rids == ReleaseIds(its)
        IN /\ responses' = Append(responses, [req |-> 1, resp |-> resp])
           /\ data' = IF IsRaise(d) THEN None ELSE d
           /\ IF IsRaise(rids)
              THEN /\ Fail(rids.exc)
                   /\ UNCHANGED <<items, release_ids, stats_tasks>>
              ELSE IF PlaceholderFails(rids.v, has_coroutine) # {}
              THEN /\ Fail("AttributeError")
                   /\ items' = its.v
                   /\ release_ids' = rids.v
                   /\ UNCHANGED stats_tasks
              ELSE /\ pc' = "gather"
                   /\ items' = its.v
                   /\ release_ids' = rids.v
                   /\ stats_tasks' =
                        [i \in 1..Len(rids.v) |->
                            [kind   |-> IF PyTruthy(rids.v[i]) THEN "fetch"
                                        ELSE "placeholder",
                             st     |-> "created",
                             req    |-> 0,
                             result |-> None]]
                   /\ UNCHANGED <<result, error>>
    /\ UNCHANGED <<has_coroutine, args, requests, marketplace>>

\* number of fetch tasks among the first i
FetchRank(tasks, i) == Cardinality({j \in 1..i : tasks[j].kind = "fetch"})
\* index of the k-th fetch task
FetchIndex(tasks, k) ==
    CHOOSE i \in 1..Len(tasks) : tasks[i].kind = "fetch" /\ FetchRank(tasks, i) = k

\* asyncio.gather wraps every awaitable in a task and the loop runs each
\* task's first step in creation order before it polls for I/O: every
\* _fetch_release_stats issues its GET (line 28), every placeholder returns
GatherStart ==
    /\ pc = "gather"
    /\ pc' = "stats_wait"
    /\ requests' = requests \o
          [k \in 1..FetchRank(stats_tasks, Len(stats_tasks)) |->
              ReleaseRequest(release_ids[FetchIndex(stats_tasks, k)].v)]
    /\ stats_tasks' =
          [i \in 1..Len(stats_tasks) |->
              IF stats_tasks[i].kind = "fetch"
              THEN [stats_tasks[i] EXCEPT !.st = "sent",
                        !.req = Len(requests) + FetchRank(stats_tasks, i)]
              ELSE [stats_tasks[i] EXCEPT !.st = "done", !.result = NullStats]]
    /\ UNCHANGED <<has_coroutine, args, responses, data, items, release_ids,
                   result, error, marketplace>>

\* the GET of task i completes: lines 29-38
StatsResponse(i) ==
    /\ pc = "stats_wait"
    /\ i \in 1..Len(stats_tasks)
    /\ stats_tasks[i].st = "sent"
    /\ \E resp \in StatsResponses(release_ids[i].v) :
        /\ responses' = Append(responses, [req |-> stats_tasks[i].req, resp |-> resp])
        /\ stats_tasks' = [stats_tasks EXCEPT ![i].st = "done",
                                              ![i].result = FetchReleaseStats(resp)]
    /\ UNCHANGED <<has_coroutine, pc, args, requests, data, items, release_ids,
                   result, error, marketplace>>

\* the order in which the tasks finished: placeholders, then arrival order
CompletionOrder(tasks, resps) ==
    LET ph == {i \in 1..Len(tasks) : tasks[i].kind = "placeholder"}
        PhRank(i) == Cardinality({j \in ph : j <= i})
        Arrival(i) == CHOOSE k \in 1..Len(resps) : resps[k].req = tasks[i].req
        ArrRank(i) == Cardinality({j \in 1..Len(tasks) :
                          tasks[j].kind = "fetch" /\ Arrival(j) <= Arrival(i)})
    IN [p \in 1..Len(tasks) |->
          CHOOSE i \in 1..Len(tasks) :
              IF i \in ph THEN PhRank(i) = p
              ELSE Cardinality(ph) + ArrRank(i) = p]

\* results collected as the tasks finish (asyncio.as_completed)
GatherByCompletion(tasks, resps) ==
    [p \in 1..Len(tasks) |-> tasks[CompletionOrder(tasks, resps)[p]].result]

\* asyncio.gather: the results in the order of the awaitables (line 108)
Gather(tasks, resps) == [i \in 1..Len(tasks) |-> tasks[i].result]

\* results of lines 110-126
BuildResults(its, stats_list) ==
    PyComprehension(PyList(its),
                    [i \in 1..Len(its) |-> SearchResultItem(its[i], stats_list[i])])

\* gather returns (or raises the first exception of a task): lines 108-126
GatherDone ==
    /\ pc = "stats_wait"
    /\ \/ \A i \in 1..Len(stats_tasks) : stats_tasks[i].st = "done"
       \/ \E i \in 1..Len(stats_tasks) : IsRaise(stats_tasks[i].result)
    /\ IF \E i \in 1..Len(stats_tasks) : IsRaise(stats_tasks[i].result)
       THEN Fail((CHOOSE r \in {stats_tasks[i].result : i \in 1..Len(stats_tasks)} :
                     IsRaise(r)).exc)
       ELSE LET res == BuildResults(items, Gather(stats_tasks, responses))
            IN IF IsRaise(res) THEN Fail(res.exc)
               ELSE /\ pc' = "done"
                    /\ result' = res
                    /\ error' = ""
    /\ UNCHANGED <<has_coroutine, args, requests, responses, data, items,
                   release_ids, stats_tasks, marketplace>>

\* get_release is called: lines 137-142, up to the await of the detail GET
CallGetRelease ==
    /\ pc = "idle"
    /\ \E rid \in ReleaseIdArgs, m \in PricingResponses :
        /\ args' = [tool |-> "get_release", release_id |-> rid]
        /\ requests' = <<ReleaseRequest(rid)>>
        /\ marketplace' = m
    /\ pc' = "release_wait"
    /\ UNCHANGED <<has_coroutine, responses, data, items, release_ids,
                   stats_tasks, result, error>>

\* the detail GET completes: lines 143-163
ReleaseResponse ==
    /\ pc = "release_wait"
    /\ \E resp \in ReleaseResponses(args.release_id) :
        LET d   == GetJson(resp)
            res == ReleaseDetail(d)
        IN /\ responses' = Append(responses, [req |-> 1, resp |-> resp])
           /\ data' = IF IsRaise(d) THEN None ELSE d
           /\ IF IsRaise(res) THEN Fail(res.exc)
              ELSE /\ pc' = "done"
                   /\ result' = res
                   /\ error' = ""
    /\ UNCHANGED <<has_coroutine, args, requests, items, release_ids,
                   stats_tasks, marketplace>>

Next ==
    \/ CallSearch(FanOutN, NoFilters)
    \/ SearchResponse(SearchResponses)
    \/ GatherStart
    \/ \E i \in 1..Len(stats_tasks) : StatsResponse(i)
    \/ GatherDone
    \/ CallGetRelease
    \/ ReleaseResponse

Spec == Init /\ [][Next]_vars

\* the parameter mapping under every combination of filters
ParamSearchResponses ==
    {Transport, Http(200, EmptyDict), Http(200, SearchBody(<<Rel1>>))}
NextParams ==
    \/ CallSearch(ParamN, FilterValues)
    \/ SearchResponse(ParamSearchResponses)
    \/ GatherStart
    \/ \E i \in 1..Len(stats_tasks) : StatsResponse(i)
    \/ GatherDone

SpecParams == Init /\ [][NextParams]_vars

\* ----------------------------------------------------------------- claims
IsSearch == args.tool = "search_records"
IsRelease == args.tool = "get_release"
Finished == pc \in {"done", "failed"}
\* the result list of the upstream search response, once it is parsed
\* (a payload without "results" has the empty list)
Upstream == IF "results" \in DOMAIN data.v THEN data.v.results.v ELSE <<>>
\* the answer to the primary request, once it arrived
Primary == responses[1].resp
\* transport failure, non-2xx status, or a body that is not JSON
Failing(resp) ==
    \/ resp.kind = "transport"
    \/ resp.status \notin 200..299
    \/ resp.body = MalformedJson
\* result entry r was made from upstream item it
MadeFrom(r, it) ==
    /\ r.v.title = (IF "title" \in DOMAIN it.v THEN it.v.title ELSE None)
    /\ r.v.url = PyStr(SiteOrigin \o (IF "uri" \in DOMAIN it.v THEN it.v.uri.v ELSE <<>>))
IsPrefixOfUpstream ==
    /\ Len(result.v) <= Len(Upstream)
    /\ \A i \in 1..Len(result.v) : MadeFrom(result.v[i], Upstream[i])
Returned20Gives5 == (Len(Upstream) = 20 /\ args.n = 5) => Len(result.v) = 5

\* C1 as stated: for every n, search_records returns at most n items, a
\* prefix of the upstream list in upstream order; 20 items and n=5 give 5
C1_AtMostN ==
    (IsSearch /\ pc = "done") =>
        /\ Len(result.v) <= args.n
        /\ IsPrefixOfUpstream
        /\ Returned20Gives5

\* C1 amended: the returned items are always a prefix of the upstream list
\* in upstream order; for n >= 0 there are at most n of them, for n < 0 the
\* list is the upstream list without its last -n items; 20 and n=5 give 5
C1_Prefix ==
    (IsSearch /\ pc = "done") =>
        /\ IsPrefixOfUpstream
        /\ args.n >= 0 => Len(result.v) <= args.n
        /\ args.n < 0 => Len(result.v) = Max(Len(Upstream) + args.n, 0)
        /\ Returned20Gives5
C1_Witness ==
    /\ IsSearch /\ pc = "done" /\ args.n = 5
    /\ Len(Upstream) = 20 /\ Len(result.v) = 5

\* the response that task i of the fan-out received
Answered(i) == \E k \in 1..Len(responses) : responses[k].req = stats_tasks[i].req
ResponseOf(i) ==
    responses[CHOOSE k \in 1..Len(responses) : responses[k].req = stats_tasks[i].req].resp
StatsOf(r) == [want |-> r.v.want, have |-> r.v.have, rating |-> r.v.rating]
AllNull == [want |-> None, have |-> None, rating |-> None]
FetchTasks == {i \in 1..Len(stats_tasks) : stats_tasks[i].kind = "fetch"}

\* C2: a failing stats request never fails the search; the search returns
\* one result per truncated item, the item whose fetch failed has null
\* want/have/rating, and the other items keep the stats of their own answer
C2_StatsFailureTolerated ==
    (IsSearch /\ \E i \in FetchTasks : Answered(i) /\ Failing(ResponseOf(i))) =>
        /\ pc # "failed"
        /\ pc = "done" =>
            /\ Len(result.v) = Len(items)
            /\ \A i \in FetchTasks :
                /\ Failing(ResponseOf(i)) => StatsOf(result.v[i]) = AllNull
                /\ ResponseOf(i) = Http(200, StatsFull(release_ids[i].v)) =>
                     StatsOf(result.v[i]) =
                        [want |-> PyInt(release_ids[i].v),
                         have |-> PyInt(release_ids[i].v + 1),
                         rating |-> PyInt(4)]
C2_Witness ==
    /\ IsSearch /\ pc = "done"
    /\ \E i, j \in FetchTasks :
        /\ Failing(ResponseOf(i))
        /\ ResponseOf(j) = Http(200, StatsFull(release_ids[j].v))
        /\ result.v[i].v.want = None
        /\ result.v[j].v.want # None

ScalarReleaseFields == {"title", "year", "formats", "genres", "styles", "country"}
ListReleaseFields == {"artists", "labels", "tracklist"}
ReleaseAnswered == IsRelease /\ Len(responses) = 1
\* a JSON object in which every field that is present has the documented
\* shape: lists of objects, community and rating objects
AllDicts(l) == l.t = "list" /\ \A i \in 1..Len(l.v) : l.v[i].t = "dict"
WellFormedRelease(b) ==
    /\ b.t = "dict"
    /\ \A f \in ListReleaseFields \cap DOMAIN b.v : AllDicts(b.v[f])
    /\ "community" \in DOMAIN b.v =>
          /\ b.v.community.t = "dict"
          /\ "rating" \in DOMAIN b.v.community.v => b.v.community.v.rating.t = "dict"
WellFormedSearch(b) ==
    /\ b.t = "dict"
    /\ "results" \in DOMAIN b.v =>
          /\ AllDicts(b.v.results)
          /\ \A i \in 1..Len(b.v.results.v) :
                "uri" \in DOMAIN b.v.results.v[i].v => b.v.results.v[i].v.uri.t = "str"
GoodRelease ==
    /\ ReleaseAnswered /\ ~Failing(Primary)
    /\ WellFormedRelease(Primary.body)

\* C3 as stated: detail succeeds and pricing fails => a non-error result
\* whose pricing field is present with three nulls
C3_NullPricing ==
    (GoodRelease /\ Failing(marketplace)) =>
        /\ pc = "done"
        /\ "pricing" \in DOMAIN result.v
        /\ result.v.pricing = NullPricing

\* C3 amended: get_release issues the release-detail request only; when it
\* succeeds the result is a non-error result without any pricing field,
\* whatever the marketplace endpoint would have answered
C3_NoPricing ==
    GoodRelease =>
        /\ pc = "done"
        /\ "pricing" \notin DOMAIN result.v
        /\ requests = <<ReleaseRequest(args.release_id)>>
C3_Witness ==
    /\ GoodRelease /\ Failing(marketplace) /\ pc = "done"
    /\ DOMAIN Primary.body.v = ReleaseFieldNames

\* C4: a release-detail request that fails by transport or status fails
\* the whole get_release: an error and no ReleaseDetail
C4_DetailFailureFails ==
    (ReleaseAnswered /\ (Primary.kind = "transport" \/ ~IsSuccess(Primary))) =>
        /\ pc = "failed"
        /\ result = None
        /\ error \in {"ConnectError", "HTTPStatusError"}
C4_Witness ==
    /\ ReleaseAnswered /\ Primary = Http(404, ErrorBody)
    /\ ~Failing(marketplace) /\ pc = "failed"

SentParams == requests[1].params
ParamValuesAsGiven ==
    /\ SentParams["q"] = args.query
    /\ \A f \in FilterNames \cap DOMAIN SentParams : SentParams[f] = args[f]

\* C5 as stated: the keys sent are exactly q, per_page and the filters
\* whose value is non-null, each with the value given
C5_NonNullFilters ==
    (IsSearch /\ pc # "idle") =>
        /\ DOMAIN SentParams =
             {"q", "per_page"} \cup {f \in FilterNames : args[f] # None}
        /\ ParamValuesAsGiven

\* C5 amended: the keys sent are exactly q, per_page and the filters whose
\* value is a non-empty string, each with the value given; a filter that
\* is null or the empty string never appears as a key
C5_NonEmptyFilters ==
    (IsSearch /\ pc # "idle") =>
        /\ DOMAIN SentParams =
             {"q", "per_page"} \cup
             {f \in FilterNames : args[f] # None /\ args[f] # PyStr(<<>>)}
        /\ ParamValuesAsGiven
        /\ \A f \in FilterNames \cap DOMAIN SentParams :
              SentParams[f] \notin {None, PyStr(<<>>)}
C5_Witness ==
    /\ IsSearch /\ pc = "search_wait"
    /\ args.type = PyStr(<<"V">>) /\ args.artist = None
    /\ args.genre = PyStr(<<>>) /\ args.year = None /\ args.format = PyStr(<<"V">>)
    /\ DOMAIN SentParams = {"q", "per_page", "type", "format"}

\* C6: per_page sent upstream is min(n, 100): 500 gives 100, 3 gives 3,
\* zero and negative n are sent unchanged
C6_PerPage ==
    (IsSearch /\ pc # "idle") =>
        /\ SentParams["per_page"].t = "int"
        /\ args.n <= 100 => SentParams["per_page"].v = args.n
        /\ args.n > 100 => SentParams["per_page"].v = 100
        /\ args.n = 500 => SentParams["per_page"].v = 100
        /\ args.n = 3 => SentParams["per_page"].v = 3
C6_Witness ==
    /\ IsSearch /\ pc = "search_wait"
    /\ args.n = 500 /\ SentParams["per_page"] = PyInt(100)

\* the stats request issued for position i is the k-th stats request,
\* where k counts the positions up to i that have a fetch
RequestFor(i) == 1 + Cardinality({j \in FetchTasks : j <= i})
ArrivalOf(q) == CHOOSE k \in 1..Len(responses) : responses[k].req = q

\* C7: whatever the completion order, the stats at position i of the
\* result are those fetched for the release id of upstream item i
C7_ByIndex ==
    (IsSearch /\ pc = "done") =>
        \A i \in 1..Len(result.v) :
            PyTruthy(ExtractReleaseId(Upstream[i])) =>
                /\ requests[RequestFor(i)] =
                      ReleaseRequest(ExtractReleaseId(Upstream[i]).v)
                /\ \E k \in 1..Len(responses) :
                      /\ responses[k].req = RequestFor(i)
                      /\ result.v[i].v.want = FetchReleaseStats(responses[k].resp).v.want
                      /\ result.v[i].v.have = FetchReleaseStats(responses[k].resp).v.have
                      /\ result.v[i].v.rating = FetchReleaseStats(responses[k].resp).v.rating
C7_Witness ==
    /\ IsSearch /\ pc = "done" /\ Len(result.v) >= 2
    /\ \E i, j \in FetchTasks :
        /\ i < j
        /\ ArrivalOf(RequestFor(j)) < ArrivalOf(RequestFor(i))
        /\ result.v[i].v.want = PyInt(ExtractReleaseId(Upstream[i]).v)
        /\ result.v[j].v.want = PyInt(ExtractReleaseId(Upstream[j]).v)
        /\ result.v[i].v.want # result.v[j].v.want

GoodSearch ==
    /\ IsSearch /\ Len(responses) >= 1 /\ ~Failing(Primary)
    /\ WellFormedSearch(Primary.body)
ScalarItemFields == ItemFieldNames \ {"uri"}

\* C8: a 2xx payload that omits optional fields never fails get_release or
\* search_records; omitted scalars are null, omitted lists are empty, an
\* omitted community or rating gives null want/have/rating/ratings_count
C8_OmissionsTolerated ==
    /\ (GoodSearch /\ Finished) =>
          /\ pc = "done"
          /\ \A i \in 1..Len(result.v) : \A f \in ScalarItemFields :
                f \notin DOMAIN Upstream[i].v => result.v[i].v[f] = None
    /\ GoodRelease =>
          /\ pc = "done"
          /\ \A f \in ScalarReleaseFields :
                f \notin DOMAIN Primary.body.v => result.v[f] = None
          /\ "uri" \notin DOMAIN Primary.body.v => result.v.url = None
          /\ \A f \in ListReleaseFields :
                f \notin DOMAIN Primary.body.v => result.v[f] = PyList(<<>>)
          /\ "community" \notin DOMAIN Primary.body.v =>
                result.v.community =
                    PyDict([want |-> None, have |-> None, rating |-> None,
                            ratings_count |-> None])

StatsRequests == {k \in 1..Len(requests) : k > 1}
ItemsWithId == {i \in 1..Len(items) : ExtractReleaseId(items[i]) # None}

\* C9: one stats GET per truncated item with a non-null release id, none
\* for an item without id, which gets null want/have/rating; the invocation
\* issues 1 + (number of items with a non-null id) requests
C9_OneRequestPerId ==
    (GoodSearch /\ Finished) =>
        /\ pc = "done"
        /\ Len(requests) = 1 + Cardinality(ItemsWithId)
        /\ \A i \in ItemsWithId :
              Cardinality({k \in StatsRequests : k = RequestFor(i) /\
                  requests[k] = ReleaseRequest(ExtractReleaseId(items[i]).v)}) = 1
        /\ \A i \in (1..Len(items)) \ ItemsWithId : StatsOf(result.v[i]) = AllNull

\* C10: no stats request before the search request returned a successful
\* parsed response; a failed search request fails the invocation with an
\* error, no results and no stats request
C10_SearchFirst ==
    IsSearch =>
        /\ Len(requests) > 1 =>
              /\ Len(responses) >= 1
              /\ responses[1].req = 1
              /\ ~Failing(Primary)
              /\ data = Primary.body
        /\ (Len(responses) >= 1 /\ Failing(Primary)) =>
              /\ pc = "failed"
              /\ error # ""
              /\ result = None
              /\ Len(requests) = 1
C10_Witness ==
    /\ IsSearch /\ pc = "failed" /\ Len(requests) = 1
    /\ Primary = Http(404, ErrorBody) /\ error = "HTTPStatusError"

====
